---- MODULE Spec2Model ----
(***************************************************************************)
(* A model of antenati.py: main() builds an AntenatiDownloader from the    *)
(* gallery page, validates the optional page selection, enters the output  *)
(* directory and calls run(), which submits one __thread_main task per     *)
(* canvas to a ThreadPoolExecutor sharing one blocking HTTPSConnectionPool *)
(* and consumes the futures with as_completed().  SIGINT runs              *)
(* signal_handler in the main thread: cancel() and exit(1).                *)
(***************************************************************************)
EXTENDS Integers, Sequences, FiniteSets, TLC

\* ---------------------------------------------------------------- bounds
MaxCanvases == 3   \* longest catalog (len(self.canvases))
MaxPages    == 2   \* longest page list handed to main()
MaxWorkers  == 2   \* largest --nthreads
MaxConns    == 2   \* largest --nconns

\* ------------------------------------------------------------ input sets
None == [kind |-> "none", val |-> <<>>]

\* HTTP statuses a server may answer with: 200, another 2xx, an error.
Statuses == {200, 204, 404}

\* What mimetypes.guess_extension() answers: an extension, or nothing.
Extensions == {".jpg", "noext"}

\* A canvas label: a word and a number. The labels of a gallery are
\* 'Pag. 1', 'pag 1', 'Pag. 3', 'Pag. 4', ...: the second differs from the
\* first only by case and punctuation, the others are all different.
LabelAt(i) ==
    IF i = 2 THEN [word |-> "pag", num |-> 1]
    ELSE [word |-> "Pag", num |-> i]

\* The length in bytes of the image a canvas points to: the images of a
\* gallery have sizes 1, 2, 3, ...
ImageSize(canvas) == canvas.id

\* The catalogs a manifest may hold: the first 0..MaxCanvases canvases of
\* the gallery. A canvas is its place in the manifest and its label.
CatalogOf(n) == [i \in 1..n |-> [id |-> i, label |-> LabelAt(i)]]
Catalogs == {CatalogOf(n) : n \in 0..MaxCanvases}

\* The page lists PageListParamType.convert can hand to main(): any short
\* list of integers (an inverted range such as '5-3' gives the empty list).
PageRange == -1..(MaxCanvases + 1)
SeqsUpTo(S, n) == UNION {[1..k -> S] : k \in 0..n}
PageArgs == {None} \cup {[kind |-> "list", val |-> s] : s \in SeqsUpTo(PageRange, MaxPages)}

\* Errors __init__ raises as RuntimeError (lines 99, 113, 118, 121, 126, 135).
FatalKinds == {"archive_id", "http_page", "no_manifest", "bad_manifest_line",
               "http_manifest", "metadata"}

\* ------------------------------------------------------------- variables
VARIABLES
    argv,                 \* the pages argument as typed, before convert
    http_reply,           \* status of the HTTP reply a fetch examines
    pc,                   \* position of the main thread in main()/run()
    cwd,                  \* the process's working directory
    exit_code,            \* process exit status, -1 while running
    stderr,               \* messages echoed to sys.stderr
    downloader,           \* main's local: FALSE while None
    canvases,             \* self.canvases
    pages,                \* main's pages: None, the list, then set(pages)
    n_workers,            \* --nthreads
    n_connections,        \* --nconns
    gallery_size,         \* self.gallery_size
    active_executors,     \* self.active_executors
    active_progress_bars, \* self.active_progress_bars
    futures,              \* future_img, in submission order
    todo,                 \* run's canvases not yet submitted
    yielded,              \* futures as_completed() has handed out
    conns_held,           \* connections taken from the pool
    progress,             \* the tqdm bar: total, n, disable
    out,                  \* lines written with progress.write
    files,                \* output directory: [name, body] per file
    summary,              \* total echoed by print_summary, -1 before
    controller            \* Running / Cancelling / Stopped

vars == <<http_reply, argv, pc, cwd, exit_code, stderr, downloader, canvases, pages, n_workers,
          n_connections, gallery_size, active_executors, active_progress_bars,
          futures, todo, yielded, conns_held, progress, out, files, summary,
          controller>>

mainVars == <<http_reply, argv, pc, cwd, exit_code, stderr, downloader, canvases, pages,
              gallery_size, active_executors, active_progress_bars, todo,
              yielded, progress, out, summary, controller>>

\* --------------------------------------------------------------- helpers
Futs == 1..Len(futures)
InState(s) == {i \in Futs : futures[i].state = s}

\* Python's seq[k] for a 0-based, possibly negative, index k.
PyIndex(seq, k) == IF k < 0 THEN seq[Len(seq) + k + 1] ELSE seq[k + 1]

\* Iteration order of a set of small non-negative ints in CPython.
RECURSIVE SetToSeq(_)
SetToSeq(S) ==
    IF S = {} THEN <<>>
    ELSE LET m == CHOOSE x \in S : \A y \in S : x <= y
         IN <<m>> \o SetToSeq(S \ {m})

Range(s) == {s[i] : i \in 1..Len(s)}

\* slugify(): lower-cases and joins the words with hyphens.
Slugify(label) == <<"pag", label.num>>

FileName(label, ext) == <<Slugify(label), ext>>

\* main is entered with pages already converted by click.
Init ==
    /\ argv = <<>>
    /\ http_reply = 0
    /\ pc = "construct"
    /\ cwd = "start"
    /\ exit_code = -1
    /\ stderr = <<>>
    /\ downloader = FALSE
    /\ canvases = <<>>
    /\ pages \in PageArgs
    /\ n_workers \in 1..MaxWorkers
    /\ n_connections \in 1..MaxConns
    /\ gallery_size = 0
    /\ active_executors = {}
    /\ active_progress_bars = {}
    /\ futures = <<>>
    /\ todo = <<>>
    /\ yielded = {}
    /\ conns_held = 0
    /\ progress = [total |-> 0, n |-> 0, disable |-> FALSE]
    /\ out = <<>>
    /\ files = {}
    /\ summary = -1
    /\ controller = "Running"

\* ----------------------------------------------------------- main thread
Terminal == {"done", "fatal", "aborted", "crashed", "stopped"}

\* main, lines 263-266 and 279-280: AntenatiDownloader(url) resolves the
\* manifest; a RuntimeError is echoed to stderr and main returns.
Construct ==
    /\ pc = "construct"
    /\ \E cat \in Catalogs, err \in FatalKinds \cup {"ok"} :
         IF err = "ok"
         THEN /\ downloader' = TRUE
              /\ canvases' = cat
              /\ pc' = "validate"
              /\ UNCHANGED <<stderr, exit_code>>
         ELSE /\ stderr' = Append(stderr, [error |-> err])
              /\ pc' = "fatal"
              /\ exit_code' = 0
              /\ UNCHANGED <<downloader, canvases>>
    /\ UNCHANGED <<http_reply, argv, cwd, pages, n_workers, n_connections, gallery_size,
                   active_executors, active_progress_bars, futures, todo,
                   yielded, conns_held, progress, out, files, summary,
                   controller>>

\* main, line 271: the range test applied to each page number.
OutOfRange(p, length) == p < 0 \/ p >= length

\* main, lines 268-274: the first page out of range raises RuntimeError;
\* otherwise pages becomes set(pages).
Validate ==
    /\ pc = "validate"
    /\ IF pages.kind = "none"
       THEN /\ pc' = "check_dir"
            /\ UNCHANGED <<pages, stderr, exit_code>>
       ELSE LET bad == {k \in 1..Len(pages.val) :
                           OutOfRange(pages.val[k], Len(canvases))}
            IN IF bad # {}
               THEN LET k == CHOOSE x \in bad : \A y \in bad : x <= y
                    IN /\ stderr' = Append(stderr, [error |-> "out_of_range",
                                                    page |-> pages.val[k]])
                       /\ pc' = "fatal"
                       /\ exit_code' = 0
                       /\ UNCHANGED pages
               ELSE /\ pages' = [kind |-> "set", val |-> Range(pages.val)]
                    /\ pc' = "check_dir"
                    /\ UNCHANGED <<stderr, exit_code>>
    /\ UNCHANGED <<http_reply, argv, cwd, downloader, canvases, n_workers, n_connections,
                   gallery_size, active_executors, active_progress_bars,
                   futures, todo, yielded, conns_held, progress, out, files,
                   summary, controller>>

\* DirPc as click.confirm without abort=True would leave main: on its way
\* to run() whatever the answer.
DirPcIgnoresAnswer(ok) == "run"

\* check_dir, line 158: declining the prompt aborts the command.
DirPc(ok) == IF ok THEN "run" ELSE "aborted"

\* check_dir, lines 152-161: the directory is entered, or the user declines
\* the prompt and click aborts the command with status 1.
CheckDir ==
    /\ pc = "check_dir"
    /\ \E ok \in BOOLEAN :
         /\ pc' = DirPc(ok)
         /\ cwd' = IF ok THEN "output" ELSE cwd
         /\ exit_code' = IF ok THEN exit_code ELSE 1
    /\ UNCHANGED <<http_reply, argv, stderr, downloader, canvases, pages, n_workers,
                   n_connections, gallery_size, active_executors,
                   active_progress_bars, futures, todo, yielded, conns_held,
                   progress, out, files, summary, controller>>

\* SelectCanvases as a selection that walks the catalog backwards would
\* choose.
SelectCanvasesReversed(pgs, cvs) ==
    IF pgs.kind # "none"
    THEN LET order == SetToSeq(pgs.val)
         IN [k \in 1..Len(order) |-> PyIndex(cvs, order[k] - 1)]
    ELSE [k \in 1..Len(cvs) |-> cvs[Len(cvs) + 1 - k]]

\* run, lines 205-208: the canvases to download.
SelectCanvases(pgs, cvs) ==
    IF pgs.kind # "none"
    THEN LET order == SetToSeq(pgs.val)
         IN [k \in 1..Len(order) |-> PyIndex(cvs, order[k] - 1)]
    ELSE cvs

\* run, lines 203-208: the executor and the pool are created, the executor
\* is registered and the canvases are chosen.
RunEnter ==
    /\ pc = "run"
    /\ active_executors' = active_executors \cup {"executor"}
    /\ todo' = SelectCanvases(pages, canvases)
    /\ pc' = "submit"
    /\ UNCHANGED <<http_reply, argv, cwd, exit_code, stderr, downloader, canvases, pages, n_workers,
                   n_connections, gallery_size, active_progress_bars, futures,
                   yielded, conns_held, progress, out, files, summary,
                   controller>>

\* executor.submit: a new future, queued.
NewFuture(canvas) ==
    [canvas |-> canvas, state |-> "PENDING", step |-> "queued",
     exc |-> "none", size |-> 0, ext |-> "noext"]

\* run, line 209: the dict comprehension submits the next canvas.
NextToSubmit(cvs) == Head(cvs)
RestToSubmit(cvs) == Tail(cvs)

Submit ==
    /\ pc = "submit"
    /\ todo # <<>>
    /\ futures' = Append(futures, NewFuture(NextToSubmit(todo)))
    /\ todo' = RestToSubmit(todo)
    /\ UNCHANGED <<http_reply, argv, cwd, pc, exit_code, stderr, downloader, canvases, pages,
                   n_workers, n_connections, gallery_size, active_executors,
                   active_progress_bars, yielded, conns_held, progress, out,
                   files, summary, controller>>

\* run, lines 210-211: the progress bar is created and registered.
OpenProgress ==
    /\ pc = "submit"
    /\ todo = <<>>
    /\ progress' = [total |-> Len(futures), n |-> 0, disable |-> FALSE]
    /\ active_progress_bars' = active_progress_bars \cup {"progress"}
    /\ pc' = "loop"
    /\ UNCHANGED <<http_reply, argv, cwd, exit_code, stderr, downloader, canvases, pages, n_workers,
                   n_connections, gallery_size, active_executors, futures,
                   todo, yielded, conns_held, out, files, summary, controller>>

\* as_completed, line 212: the futures it may hand out next.
AsCompleted ==
    {i \in Futs : futures[i].state \in {"FINISHED", "CANCELLED"} /\ i \notin yielded}

\* ProgressUpdate as a loop that forgets progress.update() would leave it.
ProgressUpdateForgotten(bar) == bar

\* tqdm.update: a disabled bar does not count.
ProgressUpdate(bar) == IF bar.disable THEN bar ELSE [bar EXCEPT !.n = @ + 1]

\* RuntimeErrors as an except clause that misses the HTTP error would have it.
RuntimeErrorsWithoutHttp == {"mime"}

\* The exceptions of __thread_main that are RuntimeError (lines 170, 174).
RuntimeErrors == {"http", "mime"}

\* AddSize as 'self.gallery_size = size' would compute it.
AddSizeAssigns(total, size) == size

\* run, line 223.
AddSize(total, size) == total + size

\* run, lines 212-223: one turn of the outcome loop.
Consume(i) ==
    /\ pc = "loop"
    /\ i \in AsCompleted
    /\ yielded' = yielded \cup {i}
    /\ IF futures[i].state = "CANCELLED"
       THEN UNCHANGED <<pc, progress, out, gallery_size>>
       ELSE /\ progress' = ProgressUpdate(progress)
            /\ IF futures[i].exc = "none"
               THEN /\ gallery_size' = AddSize(gallery_size, futures[i].size)
                    /\ UNCHANGED <<pc, out>>
               ELSE IF futures[i].exc \in RuntimeErrors
               THEN /\ out' = Append(out, [label |-> futures[i].canvas.label,
                                            error |-> futures[i].exc])
                    /\ UNCHANGED <<pc, gallery_size>>
               ELSE /\ pc' = "unwind"
                    /\ UNCHANGED <<out, gallery_size>>
    /\ UNCHANGED <<http_reply, argv, cwd, exit_code, stderr, downloader, canvases, pages, n_workers,
                   n_connections, active_executors, active_progress_bars,
                   futures, todo, conns_held, files, summary, controller>>

\* run, lines 224-225 and the end of both with blocks: as_completed is
\* exhausted, the bar and the executor are unregistered.
LoopEnd ==
    /\ pc = "loop"
    /\ yielded = Futs
    /\ active_progress_bars' = active_progress_bars \ {"progress"}
    /\ active_executors' = active_executors \ {"executor"}
    /\ pc' = "summary"
    /\ UNCHANGED <<http_reply, argv, cwd, exit_code, stderr, downloader, canvases, pages, n_workers,
                   n_connections, gallery_size, futures, todo, yielded,
                   conns_held, progress, out, files, summary, controller>>

\* An exception that is no RuntimeError leaves the loop: the with blocks
\* end (the executor's __exit__ waits for every submitted task), nothing in
\* main catches it, and the interpreter exits with status 1.
Unwind ==
    /\ pc = "unwind"
    /\ \A i \in Futs : futures[i].state \in {"FINISHED", "CANCELLED"}
    /\ pc' = "crashed"
    /\ exit_code' = 1
    /\ UNCHANGED <<http_reply, argv, cwd, stderr, downloader, canvases, pages, n_workers,
                   n_connections, gallery_size, active_executors,
                   active_progress_bars, futures, todo, yielded, conns_held,
                   progress, out, files, summary, controller>>

\* main, line 278, and the normal return of main.
PrintSummary ==
    /\ pc = "summary"
    /\ summary' = gallery_size
    /\ pc' = "done"
    /\ exit_code' = 0
    /\ UNCHANGED <<http_reply, argv, cwd, stderr, downloader, canvases, pages, n_workers,
                   n_connections, gallery_size, active_executors,
                   active_progress_bars, futures, todo, yielded, conns_held,
                   progress, out, files, controller>>

\* -------------------------------------------------------- worker threads
\* ThreadPoolExecutor(max_workers), lines 183-184: a thread is free to take
\* the next queued task.
WorkerFree == Cardinality(InState("RUNNING")) < n_workers

\* The work queue is first in, first out.
NextQueued(i) == i \in InState("PENDING") /\ \A j \in InState("PENDING") : i <= j

\* A worker thread takes the next queued task and enters __thread_main.
Start(i) ==
    /\ NextQueued(i)
    /\ WorkerFree
    /\ futures' = [futures EXCEPT ![i].state = "RUNNING", ![i].step = "get_conn"]
    /\ UNCHANGED <<mainVars, n_workers, n_connections, conns_held, files>>

\* PoolHasConn as a pool built with block=False would decide: a connection
\* beyond maxsize is opened instead of waiting.
PoolNeverBlocks == TRUE

\* HTTPSConnectionPool(maxsize, block=True), lines 187-195: a connection
\* can be taken only while fewer than maxsize are out.
PoolHasConn == conns_held < n_connections

\* __thread_main, line 167: pool.request takes a connection, or blocks.
GetConn(i) ==
    /\ i \in Futs
    /\ futures[i].step = "get_conn"
    /\ PoolHasConn
    /\ conns_held' = conns_held + 1
    /\ futures' = [futures EXCEPT ![i].step = "request"]
    /\ UNCHANGED <<mainVars, n_workers, n_connections, files>>

\* __thread_main, line 169.
StatusOk(status) == status = 200

\* __thread_main, lines 169-176: the task after the checks of the reply's
\* status and content type.
Checked(fut, status, ext) ==
    IF ~StatusOk(status)
    THEN [fut EXCEPT !.state = "FINISHED", !.step = "end", !.exc = "http"]
    ELSE IF ext = "noext"
    THEN [fut EXCEPT !.state = "FINISHED", !.step = "end", !.exc = "mime"]
    ELSE [fut EXCEPT !.step = "write", !.size = ImageSize(fut.canvas),
                     !.ext = ext]

\* __thread_main, lines 167-176: the reply arrives with its body read and
\* the connection goes back to the pool; the status and the content type
\* are checked.
Response(i) ==
    /\ i \in Futs
    /\ futures[i].step = "request"
    /\ conns_held' = conns_held - 1
    /\ \E status \in Statuses, ext \in Extensions :
         futures' = [futures EXCEPT ![i] = Checked(futures[i], status, ext)]
    /\ UNCHANGED <<mainVars, n_workers, n_connections, files>>

\* open(filename, 'wb') and write: the file of that name now holds this
\* task's body.
WriteBody(fs, name, body) == {f \in fs : f.name # name} \cup {[name |-> name, body |-> body]}

\* __thread_main, lines 177-180: the body is written and its length
\* returned, or open/write raises OSError.
WriteFile(i) ==
    /\ i \in Futs
    /\ futures[i].step = "write"
    /\ \E ok \in BOOLEAN :
         IF ok
         THEN /\ files' = WriteBody(files, FileName(futures[i].canvas.label,
                                                    futures[i].ext), i)
              /\ futures' = [futures EXCEPT ![i].state = "FINISHED",
                                            ![i].step = "end"]
         ELSE /\ futures' = [futures EXCEPT ![i].state = "FINISHED",
                                            ![i].step = "end", ![i].size = 0,
                                            ![i].exc = "oserror"]
              /\ UNCHANGED files
    /\ UNCHANGED <<mainVars, n_workers, n_connections, conns_held>>

\* ---------------------------------------------------------------- SIGINT
\* CancelFutures as shutdown(cancel_futures=False) would leave the queue.
CancelFuturesKeepsQueue(fs) == fs

\* executor.shutdown(cancel_futures=True), line 231: queued futures are
\* cancelled.
CancelFutures(fs) ==
    [i \in DOMAIN fs |-> IF fs[i].state = "PENDING"
                         THEN [fs[i] EXCEPT !.state = "CANCELLED"]
                         ELSE fs[i]]

\* HandlerPc as a handler without exit(1) would leave the main thread: back
\* where the signal found it.
HandlerPcReturns(interrupted) == interrupted

\* signal_handler, line 259: exit(1) follows cancel(); the main thread does
\* not go back to where the signal found it.
HandlerPc(interrupted) == "cancel"

\* Mute as 'progress_bar.disable = not progress_bar.disable' would set it.
MuteToggles(bar) == [bar EXCEPT !.disable = ~@]

\* cancel, lines 228-229.
Mute(bar) == [bar EXCEPT !.disable = TRUE]

\* signal_handler, lines 254-258, and cancel, lines 227-231: the handler
\* runs in the main thread; the bars are muted and the executors shut down.
\* The handler runs between two steps of the main thread: a call into the
\* executor (submit, as_completed) is one step, so the signal never finds
\* the main thread holding one of the executor's internal locks.
Interrupt ==
    /\ controller = "Running"
    /\ pc \notin Terminal
    /\ controller' = "Cancelling"
    /\ progress' = IF downloader /\ "progress" \in active_progress_bars
                   THEN Mute(progress)
                   ELSE progress
    /\ futures' = IF downloader /\ "executor" \in active_executors
                  THEN CancelFutures(futures)
                  ELSE futures
    /\ pc' = HandlerPc(pc)
    /\ UNCHANGED <<http_reply, argv, cwd, exit_code, stderr, downloader, canvases, pages,
                   n_workers, n_connections, gallery_size, active_executors,
                   active_progress_bars, todo, yielded, conns_held, out,
                   files, summary>>

\* A SIGINT that arrives while the handler is waiting in cancel(): the
\* handler runs again, nested in the first, from its first line; its
\* exit(1) ends the first handler too.
InterruptAgain ==
    /\ controller = "Cancelling"
    /\ pc \notin Terminal
    /\ progress' = IF downloader /\ "progress" \in active_progress_bars
                   THEN Mute(progress)
                   ELSE progress
    /\ futures' = IF downloader /\ "executor" \in active_executors
                  THEN CancelFutures(futures)
                  ELSE futures
    /\ pc' = HandlerPc(pc)
    /\ UNCHANGED <<http_reply, argv, cwd, exit_code, stderr, downloader, canvases, pages,
                   n_workers, n_connections, gallery_size, active_executors,
                   active_progress_bars, todo, yielded, conns_held, out,
                   files, summary, controller>>

\* shutdown waits for the worker threads (wait=True), then exit(1) raises
\* SystemExit, which nothing catches.
HandlerExit ==
    /\ pc = "cancel"
    /\ (downloader /\ "executor" \in active_executors)
         => \A i \in Futs : futures[i].state \in {"FINISHED", "CANCELLED"}
    /\ pc' = "stopped"
    /\ exit_code' = 1
    /\ controller' = "Stopped"
    /\ UNCHANGED <<http_reply, argv, cwd, stderr, downloader, canvases, pages, n_workers,
                   n_connections, gallery_size, active_executors,
                   active_progress_bars, futures, todo, yielded, conns_held,
                   progress, out, files, summary>>

\* --------------------------------------------------------- specification
Main ==
    \/ Construct
    \/ Validate
    \/ CheckDir
    \/ RunEnter
    \/ Submit
    \/ OpenProgress
    \/ \E i \in Futs : Consume(i)
    \/ LoopEnd
    \/ Unwind
    \/ PrintSummary
    \/ HandlerExit

Workers ==
    \E i \in Futs : Start(i) \/ GetConn(i) \/ Response(i) \/ WriteFile(i)

Next ==
    \/ Construct
    \/ Validate
    \/ CheckDir
    \/ RunEnter
    \/ Submit
    \/ OpenProgress
    \/ \E i \in Futs : Consume(i)
    \/ LoopEnd
    \/ Unwind
    \/ PrintSummary
    \/ \E i \in Futs : Start(i)
    \/ \E i \in Futs : GetConn(i)
    \/ \E i \in Futs : Response(i)
    \/ \E i \in Futs : WriteFile(i)
    \/ Interrupt
    \/ InterruptAgain
    \/ HandlerExit

Spec == Init /\ [][Next]_vars

\* The threads are scheduled fairly and every request is answered; the
\* signal is the environment's and is never forced.
FairSpec == Spec /\ WF_vars(Main) /\ WF_vars(Workers)

\* ------------------------------------------------------------ properties
Succeeded == {i \in Futs : futures[i].state = "FINISHED" /\ futures[i].exc = "none"}
Failed(kind) == {i \in Futs : futures[i].state = "FINISHED" /\ futures[i].exc = kind}
AtStep(st) == {i \in Futs : futures[i].step = st}

RECURSIVE SumSizes(_)
SumSizes(S) ==
    IF S = {} THEN 0
    ELSE LET i == CHOOSE x \in S : TRUE
         IN futures[i].size + SumSizes(S \ {i})

\* The lines progress.write printed for the error kind.
Reports(kind) == {k \in 1..Len(out) : out[k].error = kind}

\* run() has returned normally.
Returned == pc \in {"summary", "done"}

\* C1: at most n_workers tasks execute at once and at most n_connections
\* connections are out of the pool at once (each held by a task inside its
\* request); a task that asks for a connection while all are out stays
\* where it is, running and waiting, and takes none.
C1_BoundedConcurrency ==
    /\ [](/\ Cardinality(InState("RUNNING")) <= n_workers
          /\ conns_held <= n_connections
          /\ conns_held = Cardinality(AtStep("request")))
    /\ [][\A i \in Futs :
            (futures[i].step = "get_conn" /\ conns_held = n_connections)
              => /\ futures'[i].step = "get_conn"
                 /\ futures'[i].state = "RUNNING"
                 /\ conns_held' <= n_connections]_vars

\* C1 witness: every worker is busy, every connection is out and a running
\* task is waiting for one.
W1_WorkerWaitsForConnection ==
    /\ conns_held = n_connections
    /\ Cardinality(InState("RUNNING")) = n_workers
    /\ n_workers > n_connections
    /\ AtStep("get_conn") # {}

\* C2: the total is at every moment the sum of the sizes of the successful
\* outcomes consumed so far, each counted once and failures counting for
\* nothing; it never decreases; and when run() has returned it is the sum
\* over all the tasks that succeeded, which is what print_summary echoes.
C2_TotalIsSumOfSuccesses ==
    /\ [](gallery_size = SumSizes(yielded \cap Succeeded))
    /\ [](Returned => /\ Succeeded \subseteq yielded
                      /\ gallery_size = SumSizes(Succeeded))
    /\ [](summary # -1 => summary = SumSizes(Succeeded))
    /\ [][gallery_size' >= gallery_size]_vars

\* C2 witness: a finished run with two successes and a failure, summed up.
W2_SummaryOfMixedRun ==
    /\ pc = "done"
    /\ Cardinality(Succeeded) >= 2
    /\ Failed("http") # {}
    /\ summary = SumSizes(Succeeded)
    /\ summary >= 3

\* C3: consuming the outcome of a task that failed on its HTTP status
\* prints one line with that task's label, adds nothing to the total,
\* touches no other task and leaves the loop running; a run that left the
\* loop on an exception did so on a write error, never on an HTTP error;
\* and a run that returned has run and consumed every task, has printed
\* one line per HTTP failure, and ends with exit code 0.
C3_HttpFailureIsolated ==
    /\ [][\A i \in Futs :
            (i \notin yielded /\ i \in yielded' /\ futures[i].exc = "http")
              => /\ pc' = "loop"
                 /\ out' = Append(out, [label |-> futures[i].canvas.label,
                                        error |-> "http"])
                 /\ gallery_size' = gallery_size
                 /\ futures' = futures]_vars
    /\ [](pc \in {"unwind", "crashed"} => yielded \cap Failed("oserror") # {})
    /\ [](Returned => /\ todo = <<>>
                      /\ yielded = Futs
                      /\ InState("FINISHED") = Futs
                      /\ Cardinality(Reports("http")) = Cardinality(Failed("http"))
                      /\ \A i \in Failed("http") : \E k \in Reports("http") :
                            out[k].label = futures[i].canvas.label)
    /\ [](pc = "done" => exit_code = 0)

\* C3 witness: three tasks, the second failed on its status and was
\* reported, the other two succeeded, and the run ended with exit code 0.
W3_OneFailureOfThree ==
    /\ pc = "done"
    /\ exit_code = 0
    /\ Len(futures) = 3
    /\ Failed("http") = {2}
    /\ Succeeded = {1, 3}
    /\ Len(out) = 1
    /\ out[1].label = futures[2].canvas.label
    /\ gallery_size = futures[1].size + futures[3].size

\* C4: no failure of a single task (HTTP status, unknown content type,
\* write error) ever leaves the outcome loop as an exception: the main
\* thread is never unwinding run() and the process never dies of it.
C4_TaskFailuresStayLocal == pc \notin {"unwind", "crashed"}

\* C5: a run that ended without a signal has submitted every chosen canvas,
\* every task has finished with one outcome and the loop has consumed every
\* one of them.
C5_EveryOutcomeConsumed ==
    (pc \in {"done", "crashed"} /\ controller = "Running")
      => /\ todo = <<>>
         /\ InState("FINISHED") = Futs
         /\ yielded = Futs
         /\ progress.n = Len(futures)

\* The file names in the output directory.
FileNames(fs) == {f.name : f \in fs}

C7_NothingCountedAfterSignal ==
    [][controller' # "Running"
         => /\ gallery_size' = gallery_size
            /\ progress'.n = progress.n
            /\ out' = out
            /\ yielded' = yielded
            /\ summary' = summary]_vars

\* C7 witness: the process has stopped while a task that was in flight
\* has finished and written its file, its size missing from the total.
W7_OutcomeDiscarded ==
    /\ controller = "Stopped"
    /\ \E i \in Succeeded \ yielded : \E f \in files : f.body = i
    /\ gallery_size < SumSizes(Succeeded)

\* The page numbers main was given.
Selected == IF pages.kind = "list" THEN Range(pages.val)
            ELSE IF pages.kind = "set" THEN pages.val
            ELSE {}

\* C8: with a page number outside 1..len(canvases) in the selection, main
\* never gets past the range check: no check_dir, no run(), no task.
C8_OutOfRangeRejected ==
    (downloader /\ \E p \in Selected : p < 1 \/ p > Len(canvases))
      => /\ pc \in {"validate", "fatal", "cancel", "stopped"}
         /\ futures = <<>>
         /\ active_executors = {}

\* C9: a selection whose page numbers all lie in 1..len(canvases) is not
\* rejected, and once submitted the tasks are those canvases, one each.
C9_InRangeAccepted ==
    (downloader /\ pages.kind # "none" /\ Selected \subseteq 1..Len(canvases))
      => /\ pc # "fatal"
         /\ (pc \in {"loop", "summary", "done"}
               => /\ {futures[i].canvas.id : i \in Futs} = Selected
                  /\ Len(futures) = Cardinality(Selected))

\* C10: without a selection the tasks are submitted in catalog order (the
\* i-th future is for the i-th canvas), and once submission is over there
\* is one task per canvas.
C10_AllInCatalogOrder ==
    pages.kind = "none"
      => /\ \A i \in Futs : futures[i].canvas = canvases[i]
         /\ (pc \in {"loop", "unwind", "summary", "done", "crashed"}
               => Len(futures) = Len(canvases))

\* C10 witness: a finished run over a whole catalog of three canvases.
W10_WholeCatalogDone ==
    /\ pages.kind = "none"
    /\ pc = "done"
    /\ Len(canvases) = 3
    /\ Len(futures) = 3

\* -------------------------------------------------------- selection text
MaxText == 5   \* longest pages argument typed

\* The characters of a pages argument.
Digits == {"1", "2", "3"}
Chars == Digits \cup {",", "-"}
Texts == UNION {[1..k -> Chars] : k \in 1..MaxText}

DigitVal(c) == CASE c = "1" -> 1 [] c = "2" -> 2 [] c = "3" -> 3

AllDigits(s) == Len(s) > 0 /\ \A k \in 1..Len(s) : s[k] \in Digits

\* The number a string of decimal digits writes.
RECURSIVE DigitsValue(_)
DigitsValue(s) ==
    IF s = <<>> THEN 0
    ELSE 10 * DigitsValue(SubSeq(s, 1, Len(s) - 1)) + DigitVal(s[Len(s)])

\* int(value), lines 41-45: digits with an optional minus sign, or a
\* ValueError that parse_int turns into self.fail.
ParseInt(s) ==
    IF AllDigits(s) THEN [ok |-> TRUE, val |-> DigitsValue(s)]
    ELSE IF Len(s) > 1 /\ s[1] = "-" /\ AllDigits(Tail(s))
    THEN [ok |-> TRUE, val |-> 0 - DigitsValue(Tail(s))]
    ELSE [ok |-> FALSE, val |-> 0]

\* Where sep first stands in s, 0 when it does not.
FirstAt(s, sep) ==
    IF \E k \in 1..Len(s) : s[k] = sep
    THEN CHOOSE k \in 1..Len(s) : s[k] = sep /\ \A j \in 1..(k - 1) : s[j] # sep
    ELSE 0

\* str.split(sep, 1): at most one cut, at the first sep.
SplitOnce(s, sep) ==
    LET k == FirstAt(s, sep)
    IN IF k = 0 THEN <<s>>
       ELSE <<SubSeq(s, 1, k - 1), SubSeq(s, k + 1, Len(s))>>

\* str.split(sep): a cut at every sep.
RECURSIVE Split(_, _)
Split(s, sep) ==
    LET k == FirstAt(s, sep)
    IN IF k = 0 THEN <<s>>
       ELSE <<SubSeq(s, 1, k - 1)>> \o Split(SubSeq(s, k + 1, Len(s)), sep)

\* PyRange as range(first, last) without the + 1 of line 52 would list it.
PyRangeExclusive(first, last) == [k \in 1..(last - first) |-> first + k - 1]

\* list(range(first, last + 1)), line 52: empty when last < first.
PyRange(first, last) == [k \in 1..(last + 1 - first) |-> first + k - 1]

\* convert, lines 50-54: the page numbers one part stands for.
ConvertPart(part) ==
    LET index_range == SplitOnce(part, "-")
        ints == [k \in 1..Len(index_range) |-> ParseInt(index_range[k])]
    IN IF \E k \in 1..Len(ints) : ~ints[k].ok
       THEN [ok |-> FALSE, val |-> <<>>]
       ELSE IF Len(ints) = 2
       THEN [ok |-> TRUE, val |-> PyRange(ints[1].val, ints[2].val)]
       ELSE [ok |-> TRUE, val |-> <<ints[1].val>>]

\* convert, lines 47-56: the parts in turn, each extending the list.
RECURSIVE ConvertParts(_)
ConvertParts(parts) ==
    IF parts = <<>> THEN [ok |-> TRUE, val |-> <<>>]
    ELSE LET first == ConvertPart(Head(parts))
             rest == ConvertParts(Tail(parts))
         IN IF first.ok /\ rest.ok
            THEN [ok |-> TRUE, val |-> first.val \o rest.val]
            ELSE [ok |-> FALSE, val |-> <<>>]

ConvertText(value) == ConvertParts(Split(value, ","))

\* The command line is typed: any short text for the pages argument.
ParseInit ==
    /\ argv \in Texts
    /\ http_reply = 0
    /\ pc = "convert"
    /\ cwd = "start"
    /\ exit_code = -1
    /\ stderr = <<>>
    /\ downloader = FALSE
    /\ canvases = <<>>
    /\ pages = None
    /\ n_workers = 1
    /\ n_connections = 1
    /\ gallery_size = 0
    /\ active_executors = {}
    /\ active_progress_bars = {}
    /\ futures = <<>>
    /\ todo = <<>>
    /\ yielded = {}
    /\ conns_held = 0
    /\ progress = [total |-> 0, n |-> 0, disable |-> FALSE]
    /\ out = <<>>
    /\ files = {}
    /\ summary = -1
    /\ controller = "Running"

\* What click does with the outcome of convert: the list becomes main's
\* pages, or self.fail ends the command with a usage error, status 2.
Converted(value) ==
    LET got == ConvertText(value)
    IN IF got.ok
       THEN [pc |-> "converted", pages |-> [kind |-> "list", val |-> got.val],
             exit_code |-> -1]
       ELSE [pc |-> "usage", pages |-> None, exit_code |-> 2]

\* PageListParamType.convert, lines 37-56, called by click before main.
Convert ==
    /\ pc = "convert"
    /\ pc' = Converted(argv).pc
    /\ pages' = Converted(argv).pages
    /\ exit_code' = Converted(argv).exit_code
    /\ UNCHANGED <<http_reply, argv, cwd, stderr, downloader, canvases, n_workers,
                   n_connections, gallery_size, active_executors,
                   active_progress_bars, futures, todo, yielded, conns_held,
                   progress, out, files, summary, controller>>

\* The parts of s joined with commas again.
RECURSIVE Join(_)
Join(parts) ==
    IF Len(parts) = 1 THEN parts[1]
    ELSE parts[1] \o <<",">> \o Join(Tail(parts))

\* The same selection typed another way: two neighbouring parts swapped,
\* or one part typed once more at the end.
Retypings(value) ==
    LET parts == Split(value, ",")
        swap(k) == [j \in 1..Len(parts) |->
                      IF j = k THEN parts[k + 1]
                      ELSE IF j = k + 1 THEN parts[k] ELSE parts[j]]
    IN {Join(swap(k)) : k \in 1..(Len(parts) - 1)}
       \cup {t \in {Join(Append(parts, parts[k])) : k \in 1..Len(parts)} :
               Len(t) <= MaxText}

\* The command is run again with the selection retyped, and converted.
Retype ==
    /\ pc \in {"converted", "usage"}
    /\ \E value \in Retypings(argv) :
         /\ argv' = value
         /\ pc' = Converted(value).pc
         /\ pages' = Converted(value).pages
         /\ exit_code' = Converted(value).exit_code
    /\ UNCHANGED <<http_reply, cwd, stderr, downloader, canvases, n_workers,
                   n_connections, gallery_size, active_executors,
                   active_progress_bars, futures, todo, yielded, conns_held,
                   progress, out, files, summary, controller>>

ParseNext ==
    \/ Convert
    \/ Retype

ParseSpec == ParseInit /\ [][ParseNext]_vars

\* The parts of a text, as the places they stand at: from(i) to(j), between
\* commas or the ends of the text, holding no comma.
PartSpans(t) ==
    {sp \in (1..(Len(t) + 1)) \X (0..Len(t)) :
        /\ sp[2] >= sp[1] - 1
        /\ sp[1] = 1 \/ t[sp[1] - 1] = ","
        /\ sp[2] = Len(t) \/ t[sp[2] + 1] = ","
        /\ \A k \in sp[1]..sp[2] : t[k] # ","}
PartsOf(t) == {SubSeq(t, sp[1], sp[2]) : sp \in PartSpans(t)}

\* A part is a range a-b: digits, one hyphen, digits.
IsRange(part) ==
    \E k \in 1..Len(part) :
        /\ part[k] = "-"
        /\ AllDigits(SubSeq(part, 1, k - 1))
        /\ AllDigits(SubSeq(part, k + 1, Len(part)))
RangeStart(part) ==
    DigitsValue(SubSeq(part, 1, (CHOOSE k \in 1..Len(part) : part[k] = "-") - 1))
RangeEnd(part) ==
    DigitsValue(SubSeq(part, (CHOOSE k \in 1..Len(part) : part[k] = "-") + 1, Len(part)))

\* The indices a part lists: the index itself, or all from a to b.
Listed(part) ==
    IF AllDigits(part) THEN {DigitsValue(part)}
    ELSE IF IsRange(part) THEN RangeStart(part)..RangeEnd(part)
    ELSE {}

\* A text of single indices and ranges a-b with a <= b.
WellFormed(t) ==
    \A part \in PartsOf(t) :
        AllDigits(part) \/ (IsRange(part) /\ RangeStart(part) <= RangeEnd(part))

HasInvertedRange(t) ==
    \E part \in PartsOf(t) : IsRange(part) /\ RangeStart(part) > RangeEnd(part)

\* C11: a text of single indices and ranges a-b (a <= b) is converted, and
\* the set of the pages it gives (set(pages), line 274) is the union of the
\* indices and ranges listed; typing the same parts in another order or
\* once more gives the same set.
C11_SelectionIsUnionOfParts ==
    /\ []((pc \in {"converted", "usage"} /\ WellFormed(argv))
            => /\ pc = "converted"
               /\ pages.kind = "list"
               /\ Range(pages.val) = UNION {Listed(part) : part \in PartsOf(argv)})
    /\ [][(pc = "converted" /\ WellFormed(argv) /\ argv' # argv)
            => /\ pc' = "converted"
               /\ Range(pages'.val) = Range(pages.val)]_vars

\* C11 witness: a converted text with a range and an index it already
\* covers, such as '1-2,1': the list repeats a page the set holds once.
W11_RangeAndRepeatedIndex ==
    /\ pc = "converted"
    /\ WellFormed(argv)
    /\ \E part \in PartsOf(argv) : IsRange(part) /\ RangeStart(part) < RangeEnd(part)
    /\ Len(pages.val) > Cardinality(Range(pages.val))

\* C12: a text with a range whose start is greater than its end is refused
\* by convert: the command ends with a usage error.
C12_InvertedRangeIsFatal ==
    (pc \in {"converted", "usage"} /\ HasInvertedRange(argv)) => pc = "usage"

\* C13: a run ended by a fatal error (manifest resolution, page out of
\* range) has written one message to the error stream and exits with a
\* status that is not 0.
C13_FatalErrorExitsNonZero ==
    pc = "fatal" => (Len(stderr) = 1 /\ exit_code # 0)

\* The run has got as far as run(): an executor, a task or a later place.
OrchestratorStarted ==
    \/ futures # <<>>
    \/ active_executors # {}
    \/ pc \in {"submit", "loop", "unwind", "summary", "done", "crashed"}

\* C14: the orchestrator starts only with the manifest resolved, the
\* selection passed through the range check and the output directory
\* entered; the first task is submitted from that state; and a run ended
\* by a fatal error or a declined directory has never started it.
C14_DownloadsAfterSetup ==
    /\ [](OrchestratorStarted
            => /\ downloader
               /\ pages.kind \in {"none", "set"}
               /\ \A p \in Selected : ~OutOfRange(p, Len(canvases))
               /\ cwd = "output"
               /\ stderr = <<>>)
    /\ [][(futures = <<>> /\ futures' # <<>>)
            => (pc = "submit" /\ downloader /\ cwd = "output"
                /\ pages.kind \in {"none", "set"})]_vars
    /\ [](pc \in {"fatal", "aborted"}
            => /\ futures = <<>>
               /\ active_executors = {}
               /\ conns_held = 0
               /\ files = {})

\* C14 witness: a task has been submitted, after all three stages.
W14_FirstTaskAfterSetup ==
    /\ Len(futures) = 1
    /\ pc = "submit"
    /\ downloader
    /\ pages.kind = "set"
    /\ cwd = "output"

\* C15: the progress count is the number of outcomes consumed, whether
\* successes or failures; a step never lowers it and raises it by one at
\* most, exactly when an outcome is consumed; it never exceeds the number
\* of tasks submitted, and equals it when run() has returned.
C15_ProgressCountsOutcomes ==
    /\ [](progress.n = Cardinality(yielded) /\ progress.n <= Len(futures))
    /\ [][/\ progress'.n \in {progress.n, progress.n + 1}
          /\ (progress'.n = progress.n + 1) <=> (yielded' # yielded)]_vars
    /\ [](Returned => (progress.n = Len(futures) /\ progress.n = progress.total))

\* C15 witness: three tasks, one of them failed, the run over, the count 3.
W15_ThreeOfThree ==
    /\ pc = "done"
    /\ Len(futures) = 3
    /\ progress.n = 3
    /\ Failed("http") # {}
    /\ Succeeded # {}

\* What the handler, run once more in the current state, would leave of
\* the progress bar, the futures and the main thread's position.
HandledAgain ==
    [progress |-> IF downloader /\ "progress" \in active_progress_bars
                  THEN Mute(progress)
                  ELSE progress,
     futures  |-> IF downloader /\ "executor" \in active_executors
                  THEN CancelFutures(futures)
                  ELSE futures,
     pc       |-> HandlerPc(pc)]

C17_EmptySelectionIsAll ==
    (pages.kind = "set" /\ pages.val = {} /\ pc \in {"loop", "summary", "done"})
      => /\ Len(futures) = Len(canvases)
         /\ \A i \in Futs : futures[i].canvas = canvases[i]

\* ------------------------------------------------------------ HTTP status
\* The fetches of the program, each examined on one reply: the gallery
\* page and the manifest in __get_iiif_manifest, the image in
\* __thread_main.

\* The status codes of HTTP.
HttpStatuses == 100..599

\* The states in which a reply is about to be examined: __init__ waiting
\* for the gallery page or for the manifest, or the only task of a
\* one-canvas run waiting for its image.
FetchInit ==
    /\ http_reply \in HttpStatuses
    /\ argv = <<>>
    /\ exit_code = -1
    /\ stderr = <<>>
    /\ pages = None
    /\ n_workers = 1
    /\ n_connections = 1
    /\ gallery_size = 0
    /\ todo = <<>>
    /\ yielded = {}
    /\ out = <<>>
    /\ files = {}
    /\ summary = -1
    /\ controller = "Running"
    /\ \/ /\ pc \in {"get_page", "get_manifest"}
          /\ cwd = "start"
          /\ downloader = FALSE
          /\ canvases = <<>>
          /\ active_executors = {}
          /\ active_progress_bars = {}
          /\ futures = <<>>
          /\ conns_held = 0
          /\ progress = [total |-> 0, n |-> 0, disable |-> FALSE]
       \/ /\ pc = "loop"
          /\ cwd = "output"
          /\ downloader = TRUE
          /\ canvases = CatalogOf(1)
          /\ active_executors = {"executor"}
          /\ active_progress_bars = {"progress"}
          /\ futures = <<[NewFuture(canvases[1]) EXCEPT !.state = "RUNNING",
                                                        !.step = "request"]>>
          /\ conns_held = 1
          /\ progress = [total |-> 1, n |-> 0, disable |-> FALSE]

\* What __get_iiif_manifest does with a reply's status, lines 112-113 and
\* 125-126: it goes on to 'next', or raises the RuntimeError main echoes.
Fetched(error, next) ==
    IF StatusOk(http_reply)
    THEN [pc |-> next, stderr |-> stderr, exit_code |-> exit_code]
    ELSE [pc |-> "fatal",
          stderr |-> Append(stderr, [error |-> error, status |-> http_reply]),
          exit_code |-> 0]

\* __get_iiif_manifest, lines 110-113: the reply to the gallery page.
GetPage ==
    /\ pc = "get_page"
    /\ pc' = Fetched("http_page", "manifest_line").pc
    /\ stderr' = Fetched("http_page", "manifest_line").stderr
    /\ exit_code' = Fetched("http_page", "manifest_line").exit_code
    /\ UNCHANGED <<http_reply, argv, cwd, downloader, canvases, pages,
                   n_workers, n_connections, gallery_size, active_executors,
                   active_progress_bars, futures, todo, yielded, conns_held,
                   progress, out, files, summary, controller>>

\* __get_iiif_manifest, lines 123-128: the reply to the manifest URL.
GetManifest ==
    /\ pc = "get_manifest"
    /\ pc' = Fetched("http_manifest", "manifest_json").pc
    /\ stderr' = Fetched("http_manifest", "manifest_json").stderr
    /\ exit_code' = Fetched("http_manifest", "manifest_json").exit_code
    /\ UNCHANGED <<http_reply, argv, cwd, downloader, canvases, pages,
                   n_workers, n_connections, gallery_size, active_executors,
                   active_progress_bars, futures, todo, yielded, conns_held,
                   progress, out, files, summary, controller>>

\* __thread_main, lines 167-176: the reply to the image URL.
GetImage ==
    /\ pc = "loop"
    /\ futures[1].step = "request"
    /\ conns_held' = conns_held - 1
    /\ \E ext \in Extensions :
         futures' = [futures EXCEPT ![1] = Checked(futures[1], http_reply, ext)]
    /\ UNCHANGED <<mainVars, n_workers, n_connections, files>>

FetchNext == GetPage \/ GetManifest \/ GetImage

FetchSpec == FetchInit /\ [][FetchNext]_vars

\* C18: a fetch fails on its status exactly when the status is outside
\* 2xx: the gallery page and the manifest raise the fatal error, the image
\* task ends with the remote-fetch error, only for such a status; with a
\* 2xx status each goes on.
C18_Every2xxSucceeds ==
    /\ pc = "fatal" => /\ http_reply \notin 200..299
                       /\ stderr[Len(stderr)].status = http_reply
    /\ pc \in {"manifest_line", "manifest_json"} => http_reply \in 200..299
    /\ (pc = "loop" /\ futures[1].step # "request")
         => (futures[1].exc = "http" <=> http_reply \notin 200..299)

\* The file name a task writes to once its reply passed the checks.
Target(i) == FileName(futures[i].canvas.label, futures[i].ext)

\* C19: no two tasks are ever about to write the same file name, and after
\* a run without cancellation there is one file per successful task, each
\* holding the body of that task.
C19_OneFilePerSuccess ==
    /\ \A i, j \in AtStep("write") : i # j => Target(i) # Target(j)
    /\ (pc = "done" /\ controller = "Running")
         => /\ Cardinality(files) = Cardinality(Succeeded)
            /\ \A i \in Succeeded : \E f \in files : f.body = i

\* Positions of the main thread before run() is entered and after run()
\* has ended.
BeforeRun == {"construct", "validate", "check_dir", "run"}
AfterRun  == {"summary", "done", "crashed"}

\* C20: each registry holds at most one entry; the executor is registered
\* exactly while run() is between registering and unregistering it, the
\* progress bar exactly during the outcome loop; both registries are empty
\* before run() and after it has ended, by return or by an exception.
C20_RegistriesFollowRun ==
    /\ Cardinality(active_executors) <= 1
    /\ Cardinality(active_progress_bars) <= 1
    /\ pc \in BeforeRun \cup {"fatal", "aborted"}
         => active_executors = {} /\ active_progress_bars = {}
    /\ pc \in {"submit", "loop"} => active_executors = {"executor"}
    /\ pc = "loop" => active_progress_bars = {"progress"}
    /\ pc \in AfterRun
         => active_executors = {} /\ active_progress_bars = {}

====
